---- MODULE Spec2Model ----
(***************************************************************************)
(* A model of tts_shm_reader.py: the feed-reader loop of main(), the       *)
(* SpeechEngine coordinator (say) and the playback procedure (_stream_tts) *)
(* run by the synchronous first announcement and by every worker thread.   *)
(*                                                                         *)
(* Units.  Prices are fixed-point, four units to the dollar, so that       *)
(* THRESHOLD_VALUE = 12.5 is the integer 50 and a price exactly half way   *)
(* between two multiples of the threshold is representable.  Time is in    *)
(* tenths of a second, so that DEBOUNCE_SECONDS = 0.3 is the integer 3.    *)
(***************************************************************************)
EXTENDS Integers, Sequences, FiniteSets, TLC

\* ------------------------------------------------------------------ bounds
MaxWorkers == 2      \* worker threads say() may spawn in one run
MaxTime == 6         \* the clock stops advancing here
MaxPriceIdx == 3     \* finite prices are PriceStep * (-1 .. MaxPriceIdx)
PriceStep == 25      \* grid of the finite prices fed to the loop
MaxCacheFaults == 1  \* cache entries that are not a full clip, at most

\* ------------------------------------------------------- program constants
THRESHOLD_VALUE == 50        \* 12.5 dollars
DEBOUNCE_SECONDS == 3        \* 0.3 seconds

Dollar == (THRESHOLD_VALUE * 2) \div 25    \* units in one dollar

\* Optional values: Python's None and a present value.
None == <<>>
Some(x) == <<x>>
Val(o) == o[1]

\* ------------------------------------------------------------------ text
\* Strings are sequences of one-character strings.
UpperCase == <<"A","B","C","D","E","F","G","H","I","J","K","L","M",
               "N","O","P","Q","R","S","T","U","V","W","X","Y","Z">>
LowerCase == <<"a","b","c","d","e","f","g","h","i","j","k","l","m",
               "n","o","p","q","r","s","t","u","v","w","x","y","z">>

\* str.lower() on one character, then on a string.
LowerChar(c) ==
    IF \E i \in 1..Len(UpperCase) : UpperCase[i] = c
    THEN LowerCase[CHOOSE i \in 1..Len(UpperCase) : UpperCase[i] = c]
    ELSE c

\* str.lower() that leaves every character as it is.
LowerKeepsCase(s) == s

Lower(s) == [i \in 1..Len(s) |-> LowerChar(s[i])]

\* str.startswith
StartsWith(s, k) == Len(k) <= Len(s) /\ SubSeq(s, 1, Len(k)) = k

DigitChar == <<"0","1","2","3","4","5","6","7","8","9">>

RECURSIVE NatStr(_)
NatStr(n) == IF n < 10 THEN <<DigitChar[n + 1]>>
             ELSE NatStr(n \div 10) \o <<DigitChar[(n % 10) + 1]>>

\* str(int)
IntStr(n) == IF n < 0 THEN <<"-">> \o NatStr(-n) ELSE NatStr(n)

PhraseCheckpoint == <<"S","t","a","r","t","i","n","g"," ","p","r","i","c","e"," ",
                      "c","h","e","c","k","p","o","i","n","t">>
PhraseUp == <<"u","p"," ","t","o">>
PhraseDown == <<"d","o","w","n"," ","t","o">>

\* The canonical phrases, in the order __init__ lists them (dict order).
Phrases == <<PhraseCheckpoint, PhraseUp, PhraseDown>>

\* ------------------------------------------------------------- arithmetic
\* Python's round() of the quotient n/d (d > 0): nearest integer, ties to even.
RoundHalfEven(n, d) ==
    LET q == n \div d
        r == n % d
    IN  IF 2 * r < d THEN q
        ELSE IF 2 * r > d THEN q + 1
        ELSE IF q % 2 = 0 THEN q ELSE q + 1

\* round(price / THRESHOLD_VALUE) * THRESHOLD_VALUE
Quantize(price) == RoundHalfEven(price, THRESHOLD_VALUE) * THRESHOLD_VALUE

\* int(round(price))
RoundDollars(price) == RoundHalfEven(price, Dollar)

Abs(x) == IF x < 0 THEN -x ELSE x

\* ---------------------------------------------------------------- inputs
\* What one read of the shared-memory region can decode to: a finite float,
\* nan, +inf, -inf (all accepted by float()), or text float() rejects.
Prices == {PriceStep * i : i \in (-1)..MaxPriceIdx}
Payloads == [kind : {"num"}, v : Prices]
            \cup [kind : {"nan", "inf", "ninf", "bad"}, v : {0}]

\* main()'s local raw before the first read: not bound yet.
Unread == [kind |-> "unread", v |-> 0]

\* A prefix-cache entry: absent (synthesis failed), or a clip that is empty
\* or not (arr[:min(len(arr), 2400)] of the first chunk).
CacheEntries == {"absent", "empty", "clip"}
BuiltCaches ==
    {c \in [1..Len(Phrases) -> CacheEntries] :
        Cardinality({i \in 1..Len(Phrases) : c[i] # "clip"}) <= MaxCacheFaults}

Playbacks == 0..MaxWorkers       \* 0: the announcement run on the main thread
Workers == 1..MaxWorkers
EventIds == 0..(MaxWorkers + 1)  \* 0: the Event made by __init__

VARIABLES
    pc,                 \* position of the main thread
    raw,                \* the payload last read from shared memory
    checkpoint_price,   \* None or Some(price)
    clock,              \* time.time()
    call,               \* the arguments and locals of the say() in progress
    _prefix_cache,      \* phrase index -> cache entry
    _lock,              \* None, or Some(thread) while a thread holds it
    _last_alert_time,
    _current_thread,    \* None or Some(worker)
    _cancel_event,      \* an event id
    events,             \* event id -> is_set()
    nEvents,            \* Event objects created so far
    nThreads,           \* Thread objects created so far
    pb,                 \* playback -> its state
    accepted,           \* history: arrival times of the say() calls accepted
    dropped,            \* history: a call was dropped since the last accepted
    pipeline,           \* the chunks self.pipeline(text) yields, in order
    yielded,            \* how many of them the for loop has pulled
    audio_np,           \* the block in hand, a copy of the chunk pulled last
    clip,               \* the samples of the cached lead-in array
    stream,             \* the blocks written to the OutputStream, in order
    sinceSet            \* history: None, or Some(n) once the event is set
                        \* and n sink writes were begun from then on

vars == <<pc, raw, checkpoint_price, clock, call, _prefix_cache, _lock,
          _last_alert_time, _current_thread, _cancel_event, events,
          nEvents, nThreads, pb, accepted, dropped,
          pipeline, yielded, audio_np, clip, stream, sinceSet>>

\* The sample data of the playback followed sample by sample; the loop and
\* the coordinator never look at it.
play == <<pipeline, yielded, audio_np, clip, stream, sinceSet>>

history == <<accepted, dropped>>

engine == <<_lock, _last_alert_time, _current_thread, _cancel_event>>

\* ------------------------------------------------------------ alert texts
\* f"Starting price checkpoint: {int(round(checkpoint_price))}"
AnnounceText(checkpoint) ==
    PhraseCheckpoint \o <<":", " ">> \o IntStr(RoundDollars(checkpoint))

\* f"up to {int(round(price))}" and f"down to {int(round(price))}"
UpText(price) == PhraseUp \o <<" ">> \o IntStr(RoundDollars(price))
DownText(price) == PhraseDown \o <<" ">> \o IntStr(RoundDollars(price))

\* _match_leadin: the chunk of the first cached key that is a prefix of the
\* text, both lowered; "none" is Python's None.
MatchLeadin(text) ==
    LET hits == {i \in 1..Len(Phrases) :
                    /\ _prefix_cache[i] # "absent"
                    /\ StartsWith(Lower(text), Lower(Phrases[i]))}
    IN  IF hits = {} THEN "none"
        ELSE _prefix_cache[CHOOSE i \in hits : \A j \in hits : i <= j]

\* ------------------------------------------------------------- playbacks
\* One run of _stream_tts.  st is its position; evt, leadin are its arguments
\* (leadin is read at line 73 only); sink is whether its OutputStream is open.
\* History kept while the playback runs: how is the way the with-block was
\* left, after is the worker that was alive in the slot when the say() that
\* made this one checked it.
NewPb == [st |-> "new", evt |-> 0, leadin |-> "none", sink |-> FALSE,
          how |-> "none", after |-> None]

\* A thread that has returned: only what outlives it is kept.
DeadPb(p) == [NewPb EXCEPT !.st = "dead", !.evt = p.evt, !.sink = p.sink]

\* Thread.is_alive()
IsAlive(p) == p.st \notin {"new", "dead"}

\* say()'s arguments and its local leadin; history: alive is the worker found
\* alive in the slot at line 94, afterDrop whether calls were dropped between
\* the previous accepted call and this one.
NoCall == [text |-> <<>>, force |-> FALSE, leadin |-> "none", alive |-> None,
           afterDrop |-> FALSE]

TypeOK ==
    /\ pc \in {"wait", "announce", "say", "say_lock", "say_start", "crashed"}
    /\ raw \in Payloads \cup {Unread}
    /\ checkpoint_price = None \/ (Len(checkpoint_price) = 1 /\ Val(checkpoint_price) \in Int)
    /\ clock \in DEBOUNCE_SECONDS..MaxTime
    /\ _prefix_cache \in [1..Len(Phrases) -> CacheEntries]
    /\ _lock \in {None} \cup {Some(t) : t \in Playbacks}
    /\ _last_alert_time \in 0..MaxTime
    /\ _current_thread \in {None} \cup {Some(w) : w \in Workers}
    /\ _cancel_event \in EventIds
    /\ events \in [EventIds -> BOOLEAN]
    /\ nEvents \in 1..(MaxWorkers + 2)
    /\ nThreads \in 0..MaxWorkers
    /\ DOMAIN pb = Playbacks
    /\ accepted \in Seq(DEBOUNCE_SECONDS..MaxTime)
    /\ dropped \in BOOLEAN
    /\ pipeline \in Seq(Seq([n : Int, d : Int]))
    /\ yielded \in 0..Len(pipeline)
    /\ audio_np \in Seq([n : Int, d : Int])
    /\ clip \in Seq([n : Int, d : Int])
    /\ stream \in Seq(Seq([n : Int, d : Int]))
    /\ sinceSet = None \/ (Len(sinceSet) = 1 /\ Val(sinceSet) \in Nat)

\* No playback is followed sample by sample.
NoPlay ==
    /\ pipeline = <<>>
    /\ yielded = 0
    /\ audio_np = <<>>
    /\ clip = <<>>
    /\ stream = <<>>
    /\ sinceSet = None

\* The state after SpeechEngine() is constructed and before the first wake.
\* time.time() is far beyond DEBOUNCE_SECONDS while _last_alert_time is 0.0.
\* Each phrase's cache build may have failed or produced an empty clip.
Init ==
    /\ pc = "wait"
    /\ raw = Unread
    /\ checkpoint_price = None
    /\ clock = DEBOUNCE_SECONDS
    /\ call = NoCall
    /\ _prefix_cache \in BuiltCaches
    /\ _lock = None
    /\ _last_alert_time = 0
    /\ _current_thread = None
    /\ _cancel_event = 0
    /\ events = [e \in EventIds |-> FALSE]
    /\ nEvents = 1
    /\ nThreads = 0
    /\ pb = [w \in Playbacks |-> NewPb]
    /\ accepted = <<>>
    /\ dropped = FALSE
    /\ NoPlay

\* ------------------------------------------------------------- main loop
\* Time passes while the loop is blocked in pipe.read(1).
Tick ==
    /\ pc = "wait"
    /\ clock < MaxTime
    /\ clock' = clock + 1
    /\ UNCHANGED <<pc, raw, checkpoint_price, call, _prefix_cache, engine,
                   events, nEvents, nThreads, pb, history, play>>

\* continue: back to pipe.read(1) with nothing changed.
Skip ==
    UNCHANGED <<pc, checkpoint_price, call, engine, events, nEvents,
                nThreads, pb>>

\* An exception nothing catches leaves main(): the process exits and its
\* daemon threads stop with it.
Crash ==
    /\ pc' = "crashed"
    /\ UNCHANGED <<checkpoint_price, call, engine, events, nEvents,
                   nThreads, pb>>

\* FirstSample with the announcement stamped like an alert that went through
\* say(): _last_alert_time = now.
FirstSampleStamped(price) ==
    IF price.kind = "num"
    THEN LET q == Quantize(price.v)
         IN  /\ checkpoint_price' = Some(q)
             /\ pb' = [pb EXCEPT ![0] =
                          [NewPb EXCEPT !.st = "open", !.evt = nEvents,
                                        !.leadin = MatchLeadin(AnnounceText(q))]]
             /\ nEvents' = nEvents + 1
             /\ pc' = "announce"
             /\ _last_alert_time' = clock
             /\ UNCHANGED <<call, _lock, _current_thread, _cancel_event,
                            events, nThreads>>
    ELSE Crash

\* Lines 124-129: the first parsed sample.  round() raises ValueError on nan
\* and OverflowError on an infinity, outside the try of line 119.
FirstSample(price) ==
    IF price.kind = "num"
    THEN LET q == Quantize(price.v)
         IN  /\ checkpoint_price' = Some(q)
             /\ pb' = [pb EXCEPT ![0] =
                          [NewPb EXCEPT !.st = "open", !.evt = nEvents,
                                        !.leadin = MatchLeadin(AnnounceText(q))]]
             /\ nEvents' = nEvents + 1
             /\ pc' = "announce"
             /\ UNCHANGED <<call, engine, events, nThreads>>
    ELSE Crash

\* speech.say(alert_text) is entered; capped at MaxWorkers threads per run.
EnterSay(text) ==
    /\ nThreads < MaxWorkers
    /\ pc' = "say"
    /\ call' = [NoCall EXCEPT !.text = text]
    /\ UNCHANGED <<checkpoint_price, engine, events, nEvents, nThreads, pb>>

\* Lines 131-143: a later sample.  nan compares false both ways; an infinity
\* passes a comparison and int(round(price)) raises OverflowError.
NextSample(price) ==
    CASE price.kind = "nan" -> Skip
      [] price.kind \in {"inf", "ninf"} -> Crash
      [] OTHER ->
            LET change == price.v - Val(checkpoint_price)
            IN  IF change >= THRESHOLD_VALUE THEN EnterSay(UpText(price.v))
                ELSE IF change <= -THRESHOLD_VALUE THEN EnterSay(DownText(price.v))
                ELSE Skip

\* Wake with a decode failure that forgets the checkpoint instead of
\* continuing.
WakeBadForgets ==
    /\ pc = "wait"
    /\ \E payload \in Payloads :
          /\ raw' = payload
          /\ IF payload.kind = "bad"
             THEN /\ checkpoint_price' = None
                  /\ UNCHANGED <<pc, call, engine, events, nEvents, nThreads, pb>>
             ELSE IF checkpoint_price = None THEN FirstSample(payload)
             ELSE NextSample(payload)
    /\ UNCHANGED <<clock, _prefix_cache, history, play>>

\* Lines 115-143 up to the call of say(): one wake of the loop.
Wake ==
    /\ pc = "wait"
    /\ \E payload \in Payloads :
          /\ raw' = payload
          /\ IF payload.kind = "bad" THEN Skip
             ELSE IF checkpoint_price = None THEN FirstSample(payload)
             ELSE NextSample(payload)
    /\ UNCHANGED <<clock, _prefix_cache, history, play>>

\* say() returns to line 136 or 141: checkpoint_price = price.
Return ==
    /\ pc' = "wait"
    /\ checkpoint_price' = Some(raw.v)
    /\ call' = NoCall

\* SayGate without line 90: an accepted call leaves no timestamp.
SayGateNoStamp ==
    /\ pc = "say"
    /\ LET now == clock
       IN  IF ~call.force /\ (now - _last_alert_time) < DEBOUNCE_SECONDS
           THEN /\ Return
                /\ dropped' = TRUE
                /\ UNCHANGED <<_last_alert_time, accepted>>
           ELSE /\ UNCHANGED _last_alert_time
                /\ call' = [call EXCEPT !.leadin = MatchLeadin(call.text),
                                        !.afterDrop = dropped]
                /\ pc' = "say_lock"
                /\ accepted' = Append(accepted, now)
                /\ dropped' = FALSE
                /\ UNCHANGED checkpoint_price
    /\ UNCHANGED <<raw, clock, _prefix_cache, _lock, _current_thread,
                   _cancel_event, events, nEvents, nThreads, pb, play>>

\* SayGate with line 90 moved above the test's return: a dropped call is
\* stamped too.
SayGateStampsDropped ==
    /\ pc = "say"
    /\ LET now == clock
       IN  /\ _last_alert_time' = now
           /\ IF ~call.force /\ (now - _last_alert_time) < DEBOUNCE_SECONDS
              THEN /\ Return
                   /\ dropped' = TRUE
                   /\ UNCHANGED accepted
              ELSE /\ call' = [call EXCEPT !.leadin = MatchLeadin(call.text),
                                           !.afterDrop = dropped]
                   /\ pc' = "say_lock"
                   /\ accepted' = Append(accepted, now)
                   /\ dropped' = FALSE
                   /\ UNCHANGED checkpoint_price
    /\ UNCHANGED <<raw, clock, _prefix_cache, _lock, _current_thread,
                   _cancel_event, events, nEvents, nThreads, pb, play>>

\* Lines 87-92: the debounce gate, the timestamp, the lead-in lookup.
SayGate ==
    /\ pc = "say"
    /\ LET now == clock
       IN  IF ~call.force /\ (now - _last_alert_time) < DEBOUNCE_SECONDS
           THEN /\ Return
                /\ dropped' = TRUE
                /\ UNCHANGED <<_last_alert_time, accepted>>
           ELSE /\ _last_alert_time' = now
                /\ call' = [call EXCEPT !.leadin = MatchLeadin(call.text),
                                        !.afterDrop = dropped]
                /\ pc' = "say_lock"
                /\ accepted' = Append(accepted, now)
                /\ dropped' = FALSE
                /\ UNCHANGED checkpoint_price
    /\ UNCHANGED <<raw, clock, _prefix_cache, _lock, _current_thread,
                   _cancel_event, events, nEvents, nThreads, pb, play>>

\* SayCancel without line 95: the slot is replaced, its worker never told.
SayCancelNoSet ==
    /\ pc = "say_lock"
    /\ LET alive == /\ _current_thread # None
                    /\ IsAlive(pb[Val(_current_thread)])
       IN  call' = [call EXCEPT !.alive =
                       IF alive THEN _current_thread ELSE None]
    /\ _lock = None
    /\ _lock' = Some(0)
    /\ pc' = "say_start"
    /\ UNCHANGED <<raw, checkpoint_price, clock, _prefix_cache,
                   _last_alert_time, _current_thread, _cancel_event,
                   events, nEvents, nThreads, pb, history, play>>

\* SayCancel that leaves alone a worker which has not opened its stream yet.
SayCancelUnlessOpening ==
    /\ pc = "say_lock"
    /\ _lock = None
    /\ _lock' = Some(0)
    /\ LET alive == /\ _current_thread # None
                    /\ IsAlive(pb[Val(_current_thread)])
                    /\ pb[Val(_current_thread)].st # "open"
       IN  /\ events' = IF alive THEN [events EXCEPT ![_cancel_event] = TRUE]
                        ELSE events
           /\ call' = [call EXCEPT !.alive =
                          IF alive THEN _current_thread ELSE None]
    /\ pc' = "say_start"
    /\ UNCHANGED <<raw, checkpoint_price, clock, _prefix_cache,
                   _last_alert_time, _current_thread, _cancel_event,
                   nEvents, nThreads, pb, history, play>>

\* Lines 93-95: the main thread (thread 0) acquires the lock once it is free
\* and cancels the worker in the slot if it is alive.
SayCancel ==
    /\ pc = "say_lock"
    /\ _lock = None
    /\ _lock' = Some(0)
    /\ LET alive == /\ _current_thread # None
                    /\ IsAlive(pb[Val(_current_thread)])
       IN  /\ events' = IF alive THEN [events EXCEPT ![_cancel_event] = TRUE]
                        ELSE events
           /\ call' = [call EXCEPT !.alive =
                          IF alive THEN _current_thread ELSE None]
    /\ pc' = "say_start"
    /\ UNCHANGED <<raw, checkpoint_price, clock, _prefix_cache,
                   _last_alert_time, _current_thread, _cancel_event,
                   nEvents, nThreads, pb, history, play>>

\* SayStart without line 96: the new thread gets the Event already in the
\* slot.
SayStartSharedEvent ==
    /\ pc = "say_start"
    /\ _lock' = None
    /\ LET t == nThreads + 1
       IN  /\ nThreads' = t
           /\ _current_thread' = Some(t)
           /\ pb' = [pb EXCEPT ![t] =
                        [NewPb EXCEPT !.st = "open", !.evt = _cancel_event,
                                      !.leadin = call.leadin,
                                      !.after = call.alive]]
    /\ Return
    /\ UNCHANGED <<raw, clock, _prefix_cache, _last_alert_time, _cancel_event,
                   events, nEvents, history, play>>

\* Lines 96-99, under the lock: a new Event, a new Thread in the slot, start;
\* the with-statement then releases the lock and say() returns.
SayStart ==
    /\ pc = "say_start"
    /\ _lock' = None
    /\ LET t == nThreads + 1
       IN  /\ _cancel_event' = nEvents
           /\ nEvents' = nEvents + 1
           /\ nThreads' = t
           /\ _current_thread' = Some(t)
           /\ pb' = [pb EXCEPT ![t] =
                        [NewPb EXCEPT !.st = "open", !.evt = nEvents,
                                      !.leadin = call.leadin,
                                      !.after = call.alive]]
    /\ Return
    /\ UNCHANGED <<raw, clock, _prefix_cache, _last_alert_time, events,
                   history, play>>

\* ------------------------------------------------------------ _stream_tts
\* The playback w may take a step: the announcement is the main thread in
\* _stream_tts, a worker is a started thread; nothing runs after a crash.
Runs(w) ==
    /\ pc # "crashed"
    /\ w = 0 => pc = "announce"

\* The with-block is left normally: __exit__ closes the stream.
Ended(p, why) ==
    [p EXCEPT !.sink = FALSE, !.st = "exit", !.how = why]

\* Raised without the with-statement's __exit__: the stream stays open.
RaisedLeak(p, why) ==
    [p EXCEPT !.st = "exit", !.how = why]

\* An exception leaves the with-block: __exit__ closes the stream, then the
\* except clause of line 83 prints it.
Raised(p, why) ==
    [p EXCEPT !.sink = FALSE, !.st = "exit", !.how = why]

Step(w, p) ==
    /\ pb' = [pb EXCEPT ![w] = p]
    /\ UNCHANGED <<pc, raw, checkpoint_price, clock, call, _prefix_cache,
                   engine, events, nEvents, nThreads, history, play>>

\* Fail with an except clause that also empties the coordinator's slot.
FailClearsSlot(w, why) ==
    /\ pb' = [pb EXCEPT ![w] = Raised(pb[w], why)]
    /\ _current_thread' = None
    /\ UNCHANGED <<pc, raw, checkpoint_price, clock, call, _prefix_cache,
                   _lock, _last_alert_time, _cancel_event, events, nEvents,
                   nThreads, history, play>>

\* An exception raised inside the with-block of playback w.
Fail(w, why) == Step(w, Raised(pb[w], why))

\* Open by a worker that takes the coordinator's lock for its whole playback.
OpenUnderLock(w) ==
    /\ Runs(w)
    /\ pb[w].st = "open"
    /\ _lock = None
    /\ _lock' = Some(w)
    /\ pb' = [pb EXCEPT ![w] = [pb[w] EXCEPT !.sink = TRUE, !.leadin = "none",
                 !.st = IF pb[w].leadin = "clip" THEN "leadin" ELSE "pull"]]
    /\ UNCHANGED <<pc, raw, checkpoint_price, clock, call, _prefix_cache,
                   _last_alert_time, _current_thread, _cancel_event, events,
                   nEvents, nThreads, history, play>>

\* Line 72: sd.OutputStream(...) opens, or raises before any stream exists.
Open(w) ==
    /\ Runs(w)
    /\ pb[w].st = "open"
    /\ \/ Step(w, [pb[w] EXCEPT !.sink = TRUE, !.leadin = "none",
                       !.st = IF pb[w].leadin = "clip" THEN "leadin" ELSE "pull"])
       \/ Step(w, [pb[w] EXCEPT !.st = "exit", !.how = "open", !.leadin = "none"])

\* Lines 73-74: the lead-in is written with cancel_triggered=False.
Leadin(w) ==
    /\ Runs(w)
    /\ pb[w].st = "leadin"
    /\ \/ Step(w, [pb[w] EXCEPT !.st = "pull"])
       \/ Fail(w, "sink")

\* Lines 75-78: next(gen) yields a chunk, or an empty one that is skipped
\* (continue: the playback is where it was), or ends, or raises.  The
\* generator yields any number of chunks.
Pull(w) ==
    /\ Runs(w)
    /\ pb[w].st = "pull"
    /\ \/ Step(w, [pb[w] EXCEPT !.st = "check"])
       \/ Step(w, pb[w])
       \/ Step(w, Ended(pb[w], "end"))
       \/ Fail(w, "synth")

\* Line 79: cancel_event.is_set()
Check(w) ==
    /\ Runs(w)
    /\ pb[w].st = "check"
    /\ Step(w, [pb[w] EXCEPT !.st = IF events[pb[w].evt] THEN "fade" ELSE "write"])

\* Line 82: the chunk is written unmodified and the loop goes on.
Write(w) ==
    /\ Runs(w)
    /\ pb[w].st = "write"
    /\ \/ Step(w, [pb[w] EXCEPT !.st = "pull"])
       \/ Fail(w, "sink")

\* Fade without the break of line 81: the loop goes on after the faded write.
FadeNoBreak(w) ==
    /\ Runs(w)
    /\ pb[w].st = "fade"
    /\ \/ Step(w, [pb[w] EXCEPT !.st = "pull"])
       \/ Fail(w, "sink")

\* Lines 80-81: the chunk is faded and written, then break.
Fade(w) ==
    /\ Runs(w)
    /\ pb[w].st = "fade"
    /\ \/ Step(w, Ended(pb[w], "cancel"))
       \/ Fail(w, "sink")

\* _stream_tts returns: a worker thread ends; the main thread goes on to the
\* continue of line 129.
Exit(w) ==
    /\ Runs(w)
    /\ pb[w].st = "exit"
    /\ pb' = [pb EXCEPT ![w] = DeadPb(pb[w])]
    /\ pc' = IF w = 0 THEN "wait" ELSE pc
    /\ UNCHANGED <<raw, checkpoint_price, clock, call, _prefix_cache,
                   engine, events, nEvents, nThreads, history, play>>

Next ==
    \/ Tick
    \/ Wake
    \/ SayGate
    \/ SayCancel
    \/ SayStart
    \/ \E w \in Playbacks :
          Open(w) \/ Leadin(w) \/ Pull(w) \/ Check(w) \/ Write(w) \/ Fade(w) \/ Exit(w)

Spec == Init /\ [][Next]_vars

\* ------------------------------------------------- one playback, in samples
\* The worker of the first accepted say() followed sample by sample.  A
\* sample is an exact fraction n/d of full scale.
MaxChunks == 3       \* chunks one synthesis yields, at most
MaxChunkLen == 2     \* samples in a short chunk, at most
MaxOver == 1         \* samples a long chunk has beyond the fade length

SAMPLE_RATE == 24000
FADE_OUT_MS == 300

Frac(n, d) == [n |-> n, d |-> d]
Sample(x) == Frac(x, 1)
Times(a, b) == Frac(a.n * b.n, a.d * b.d)
SameValue(a, b) == a.n * b.d = b.n * a.d
Min(a, b) == IF a <= b THEN a ELSE b

\* int(SAMPLE_RATE * FADE_OUT_MS / 1000)
FadeLength == (SAMPLE_RATE * FADE_OUT_MS) \div 1000

\* np.linspace with its end point left out: num points of step 1/num.
LinspaceOpen(start, stop, num) ==
    [i \in 1..num |-> Frac(start * num + (i - 1) * (stop - start), num)]

\* np.linspace(start, stop, num) for num >= 1: num points from start to stop,
\* both included, of step (stop - start)/(num - 1); the point start alone when
\* num is 1.
Linspace(start, stop, num) ==
    [i \in 1..num |->
        IF num = 1 THEN Frac(start, 1)
        ELSE Frac(start * (num - 1) + (i - 1) * (stop - start), num - 1)]

\* Lines 59-63: the block as _fade_and_write leaves it, in place, and hands it
\* to stream.write().
FadeAndWrite(block, cancel_triggered) ==
    IF cancel_triggered
    THEN LET fade_samples == Min(Len(block), FadeLength)
         IN  IF fade_samples > 0
             THEN LET fade_curve == Linspace(1, 0, fade_samples)
                  IN  [i \in 1..Len(block) |->
                          IF i <= fade_samples
                          THEN Times(block[i], fade_curve[i])
                          ELSE block[i]]
             ELSE block
    ELSE block

\* The chunk the synthesis yields in place j, len samples long: every sample
\* is non-zero and no two chunks of a synthesis are alike.
MakeChunk(j, len) ==
    [k \in 1..len |->
        Sample((10 * j + (k % 7) + 1) * (IF k % 2 = 0 THEN -1 ELSE 1))]

ShortLens == 0..MaxChunkLen
LongLens == (FadeLength - 1)..(FadeLength + MaxOver)

\* What self.pipeline(text) may yield: up to MaxChunks short chunks, some of
\* them empty, or one chunk about as long as the fade.
Pipelines ==
    {[j \in DOMAIN lens |-> MakeChunk(j, lens[j])] :
        lens \in UNION {[1..m -> ShortLens] : m \in 0..MaxChunks}}
    \cup {<<MakeChunk(1, len)>> : len \in LongLens}

\* The samples of a cache entry: the array cached for a phrase.
ClipOf(entry) == IF entry = "clip" THEN <<Sample(3), Sample(-5)>> ELSE <<>>

\* The worker followed, and the place of its phrase in the cache.
TheWorker == 1
UpKey == CHOOSE i \in 1..Len(Phrases) : Phrases[i] = PhraseUp

\* The state of Spec in which the first sample was 0, its announcement has
\* returned, the next sample crossed the threshold upwards and say() has just
\* started the first worker; the cache entry of its phrase is any entry, its
\* synthesis any of Pipelines.
InitPlay ==
    /\ pc = "wait"
    /\ raw = [kind |-> "num", v |-> PriceStep * MaxPriceIdx]
    /\ checkpoint_price = Some(raw.v)
    /\ clock = DEBOUNCE_SECONDS
    /\ call = NoCall
    /\ _prefix_cache \in {c \in [1..Len(Phrases) -> CacheEntries] :
                             \A i \in 1..Len(Phrases) : i # UpKey => c[i] = "clip"}
    /\ _lock = None
    /\ _last_alert_time = clock
    /\ _current_thread = Some(TheWorker)
    /\ _cancel_event = 2
    /\ events = [e \in EventIds |-> FALSE]
    /\ nEvents = 3
    /\ nThreads = 1
    /\ pb = [w \in Playbacks |->
                IF w = 0 THEN DeadPb([NewPb EXCEPT !.evt = 1])
                ELSE IF w = TheWorker
                THEN [NewPb EXCEPT !.st = "open", !.evt = 2,
                                   !.leadin = MatchLeadin(UpText(raw.v))]
                ELSE NewPb]
    /\ accepted = <<clock>>
    /\ dropped = FALSE
    /\ pipeline \in Pipelines
    /\ yielded = 0
    /\ audio_np = <<>>
    /\ clip = ClipOf(_prefix_cache[UpKey])
    /\ stream = <<>>
    /\ sinceSet = None

\* What a step of the worker leaves alone outside its own state and the data.
PlayFrame ==
    UNCHANGED <<pc, raw, checkpoint_price, clock, call, _prefix_cache, engine,
                nEvents, nThreads, history>>

\* One more sink write is begun.
Begun(since) == IF since = None THEN None ELSE Some(Val(since) + 1)

\* Line 95 of a later say(): the worker's event is set while it is alive.
\* What else that call does is in Spec.
PlayCancel ==
    /\ IsAlive(pb[TheWorker])
    /\ ~events[pb[TheWorker].evt]
    /\ events' = [events EXCEPT ![pb[TheWorker].evt] = TRUE]
    /\ sinceSet' = Some(0)
    /\ UNCHANGED <<pb, pipeline, yielded, audio_np, clip, stream>>
    /\ PlayFrame

\* Line 72.
PlayOpen ==
    /\ pb[TheWorker].st = "open"
    /\ \/ pb' = [pb EXCEPT ![TheWorker] =
                    [@ EXCEPT !.sink = TRUE, !.leadin = "none",
                              !.st = IF pb[TheWorker].leadin = "clip"
                                     THEN "leadin" ELSE "pull"]]
       \/ pb' = [pb EXCEPT ![TheWorker] =
                    [@ EXCEPT !.st = "exit", !.how = "open", !.leadin = "none"]]
    /\ UNCHANGED <<events, play>>
    /\ PlayFrame

\* PlayLeadin with the lead-in handed to _fade_and_write like a chunk: faded
\* once the event is set.
PlayLeadinFaded ==
    /\ pb[TheWorker].st = "leadin"
    /\ LET block == FadeAndWrite(clip, events[pb[TheWorker].evt])
       IN  /\ clip' = block
           /\ \/ /\ stream' = Append(stream, block)
                 /\ pb' = [pb EXCEPT ![TheWorker].st = "pull"]
              \/ /\ stream' = stream
                 /\ pb' = [pb EXCEPT ![TheWorker] = Raised(@, "sink")]
    /\ sinceSet' = Begun(sinceSet)
    /\ UNCHANGED <<events, pipeline, yielded, audio_np>>
    /\ PlayFrame

\* Lines 73-74: the cached array itself goes to _fade_and_write, with
\* cancel_triggered=False; stream.write() returns or raises.
PlayLeadin ==
    /\ pb[TheWorker].st = "leadin"
    /\ LET block == FadeAndWrite(clip, FALSE)
       IN  /\ clip' = block
           /\ \/ /\ stream' = Append(stream, block)
                 /\ pb' = [pb EXCEPT ![TheWorker].st = "pull"]
              \/ /\ stream' = stream
                 /\ pb' = [pb EXCEPT ![TheWorker] = Raised(@, "sink")]
    /\ sinceSet' = Begun(sinceSet)
    /\ UNCHANGED <<events, pipeline, yielded, audio_np>>
    /\ PlayFrame

\* Lines 75-78: the generator yields its next chunk, which astype() copies
\* and which is skipped when empty, or is exhausted, or raises.
PlayPull ==
    /\ pb[TheWorker].st = "pull"
    /\ \/ /\ yielded < Len(pipeline)
          /\ yielded' = yielded + 1
          /\ audio_np' = pipeline[yielded + 1]
          /\ pb' = [pb EXCEPT ![TheWorker].st =
                       IF Len(pipeline[yielded + 1]) = 0 THEN "pull" ELSE "check"]
       \/ /\ yielded = Len(pipeline)
          /\ pb' = [pb EXCEPT ![TheWorker] = Ended(@, "end")]
          /\ UNCHANGED <<yielded, audio_np>>
       \/ /\ pb' = [pb EXCEPT ![TheWorker] = Raised(@, "synth")]
          /\ UNCHANGED <<yielded, audio_np>>
    /\ UNCHANGED <<events, pipeline, clip, stream, sinceSet>>
    /\ PlayFrame

\* Line 79.
PlayCheck ==
    /\ pb[TheWorker].st = "check"
    /\ pb' = [pb EXCEPT ![TheWorker].st =
                 IF events[pb[TheWorker].evt] THEN "fade" ELSE "write"]
    /\ UNCHANGED <<events, play>>
    /\ PlayFrame

\* Line 82.
PlayWrite ==
    /\ pb[TheWorker].st = "write"
    /\ LET block == FadeAndWrite(audio_np, FALSE)
       IN  /\ audio_np' = block
           /\ \/ /\ stream' = Append(stream, block)
                 /\ pb' = [pb EXCEPT ![TheWorker].st = "pull"]
              \/ /\ stream' = stream
                 /\ pb' = [pb EXCEPT ![TheWorker] = Raised(@, "sink")]
    /\ sinceSet' = Begun(sinceSet)
    /\ UNCHANGED <<events, pipeline, yielded, clip>>
    /\ PlayFrame

\* PlayFade without the break of line 81.
PlayFadeNoBreak ==
    /\ pb[TheWorker].st = "fade"
    /\ LET block == FadeAndWrite(audio_np, TRUE)
       IN  /\ audio_np' = block
           /\ \/ /\ stream' = Append(stream, block)
                 /\ pb' = [pb EXCEPT ![TheWorker].st = "pull"]
              \/ /\ stream' = stream
                 /\ pb' = [pb EXCEPT ![TheWorker] = Raised(@, "sink")]
    /\ sinceSet' = Begun(sinceSet)
    /\ UNCHANGED <<events, pipeline, yielded, clip>>
    /\ PlayFrame

\* Lines 80-81.
PlayFade ==
    /\ pb[TheWorker].st = "fade"
    /\ LET block == FadeAndWrite(audio_np, TRUE)
       IN  /\ audio_np' = block
           /\ \/ /\ stream' = Append(stream, block)
                 /\ pb' = [pb EXCEPT ![TheWorker] = Ended(@, "cancel")]
              \/ /\ stream' = stream
                 /\ pb' = [pb EXCEPT ![TheWorker] = Raised(@, "sink")]
    /\ sinceSet' = Begun(sinceSet)
    /\ UNCHANGED <<events, pipeline, yielded, clip>>
    /\ PlayFrame

\* _stream_tts returns and the thread ends.
PlayExit ==
    /\ pb[TheWorker].st = "exit"
    /\ pb' = [pb EXCEPT ![TheWorker] = DeadPb(@)]
    /\ UNCHANGED <<events, play>>
    /\ PlayFrame

NextPlay ==
    \/ PlayCancel
    \/ PlayOpen
    \/ PlayLeadin
    \/ PlayPull
    \/ PlayCheck
    \/ PlayWrite
    \/ PlayFade
    \/ PlayExit

SpecPlay == InitPlay /\ [][NextPlay]_vars

\* The worker's thread is scheduled, next(gen) returns or raises and
\* stream.write() returns or raises; the synthesis is finite (pipeline is).
\* Nothing obliges a later say() to come.
PlayFair ==
    /\ WF_vars(PlayOpen)
    /\ WF_vars(PlayLeadin)
    /\ WF_vars(PlayPull)
    /\ WF_vars(PlayCheck)
    /\ WF_vars(PlayWrite)
    /\ WF_vars(PlayFade)
    /\ WF_vars(PlayExit)

\* The runs whose chunks are all short: how long a chunk is plays no part in
\* where the worker goes next.
InitPlayShort ==
    /\ InitPlay
    /\ \A j \in 1..Len(pipeline) : Len(pipeline[j]) \in ShortLens

SpecPlayFair == InitPlayShort /\ [][NextPlay]_vars /\ PlayFair

\* The state SpecPlay starts from, without the data, as Spec reaches it.
PlayStartReached ==
    /\ pc = "wait"
    /\ raw = [kind |-> "num", v |-> PriceStep * MaxPriceIdx]
    /\ checkpoint_price = Some(raw.v)
    /\ clock = DEBOUNCE_SECONDS
    /\ _last_alert_time = clock
    /\ _current_thread = Some(TheWorker)
    /\ _cancel_event = 2
    /\ nEvents = 3
    /\ nThreads = 1
    /\ pb[0] = DeadPb([NewPb EXCEPT !.evt = 1])
    /\ pb[TheWorker] = [NewPb EXCEPT !.st = "open", !.evt = 2,
                                     !.leadin = MatchLeadin(UpText(raw.v))]
    /\ accepted = <<clock>>
    /\ \A e \in EventIds : ~events[e]

\* ------------------------------------------------- _match_leadin on its own
\* str.upper() on one character, then on a string.
UpperChar(c) ==
    IF \E i \in 1..Len(LowerCase) : LowerCase[i] = c
    THEN UpperCase[CHOOSE i \in 1..Len(LowerCase) : LowerCase[i] = c]
    ELSE c

Upper(s) == [i \in 1..Len(s) |-> UpperChar(s[i])]

\* The texts the loop builds for the prices it may see, the same texts in
\* capitals and with the first letter's case flipped, the bare phrases, the
\* phrases cut short by a character, texts with a phrase not at the start,
\* and the empty text.
BuiltTexts ==
    {AnnounceText(Quantize(p)) : p \in Prices}
    \cup {UpText(p) : p \in Prices} \cup {DownText(p) : p \in Prices}
FlipFirst(s) ==
    IF s = <<>> THEN s
    ELSE <<IF UpperChar(s[1]) = s[1] THEN LowerChar(s[1]) ELSE UpperChar(s[1])>>
         \o Tail(s)
Texts ==
    BuiltTexts
    \cup {Upper(t) : t \in BuiltTexts}
    \cup {FlipFirst(t) : t \in BuiltTexts}
    \cup {Phrases[i] : i \in 1..Len(Phrases)}
    \cup {SubSeq(Phrases[i], 1, Len(Phrases[i]) - 1) : i \in 1..Len(Phrases)}
    \cup {<<" ">> \o t : t \in BuiltTexts}
    \cup {<<>>}

\* say(text) is entered on a freshly constructed engine whose cache is any
\* outcome of _build_prefix_cache.
InitMatch ==
    /\ pc = "say"
    /\ raw = Unread
    /\ checkpoint_price = None
    /\ clock = DEBOUNCE_SECONDS
    /\ call \in {[NoCall EXCEPT !.text = t] : t \in Texts}
    /\ _prefix_cache \in [1..Len(Phrases) -> CacheEntries]
    /\ _lock = None
    /\ _last_alert_time = 0
    /\ _current_thread = None
    /\ _cancel_event = 0
    /\ events = [e \in EventIds |-> FALSE]
    /\ nEvents = 1
    /\ nThreads = 0
    /\ pb = [w \in Playbacks |-> NewPb]
    /\ accepted = <<>>
    /\ dropped = FALSE
    /\ NoPlay

\* Lines 87-92 of that call: the lookup of line 92 is made.
SpecMatch == InitMatch /\ [][SayGate]_vars

\* ---------------------------------------------------------------- claims
Opened == {w \in Playbacks : pb[w].sink}

\* C1: whenever an accepted say() finds the worker A of the slot alive, A's
\* cancellation event is set before the new worker B is started: in no state
\* has B started while the event of such an A is unset.
C1_CancelBeforeStart ==
    \A b \in Workers :
        (pb[b].st # "new" /\ pb[b].after # None)
            => events[pb[Val(pb[b].after)].evt]

\* B has started while A, alive when B's call checked it, still runs.
C1_Witness ==
    \E b \in Workers :
        /\ IsAlive(pb[b])
        /\ pb[b].after # None
        /\ IsAlive(pb[Val(pb[b].after)])

\* C2: at most one playback is inside its open OutputStream scope at a time.
C2_SingleWriter == Cardinality(Opened) <= 1

\* C3: of two non-forced say() calls less than DEBOUNCE_SECONDS apart, the
\* first accepted, only the first spawns a worker: no two accepted calls are
\* that close, an accepted call spawns exactly one worker and a dropped call
\* none.
C3_DebounceOneSpawn ==
    /\ \A i, j \in 1..Len(accepted) :
          i < j => accepted[j] - accepted[i] >= DEBOUNCE_SECONDS
    /\ nThreads = IF pc \in {"say_lock", "say_start"}
                  THEN Len(accepted) - 1 ELSE Len(accepted)

\* A call that arrived inside the window of the one accepted call has been
\* dropped, and one worker exists.
C3_Witness ==
    /\ pc = "wait"
    /\ dropped
    /\ Len(accepted) = 1
    /\ clock - accepted[1] < DEBOUNCE_SECONDS
    /\ nThreads = 1

\* C4: a dropped say() changes nothing of the coordinator, sets no event and
\* starts no thread; and a non-forced call arriving DEBOUNCE_SECONDS or more
\* after the last accepted call is accepted, whatever was dropped in between.
C4_DroppedCallNoEffect ==
    [][/\ (pc = "say" /\ pc' = "wait")
            => UNCHANGED <<engine, events, nEvents, nThreads, pb>>
       /\ (/\ pc = "say" /\ pc' # "say"
           /\ \/ accepted = <<>>
              \/ clock - accepted[Len(accepted)] >= DEBOUNCE_SECONDS)
            => pc' = "say_lock"]_vars

\* A call is accepted after calls dropped since the previous accepted one.
C4_Witness ==
    /\ pc = "say_start"
    /\ call.afterDrop
    /\ Len(accepted) = 2

\* C5: a playback holding a chunk while its event is set writes it faded,
\* and after the faded write it pulls and writes nothing more and exits: at
\* most one faded chunk per worker.
C5_OneFadedChunk ==
    [][\A w \in Playbacks :
          /\ (pb[w].st = "check" /\ events[pb[w].evt])
                => pb'[w].st \in {"check", "fade"}
          /\ pb[w].st = "fade" => pb'[w].st \in {"fade", "exit"}
          /\ pb[w].st = "exit" => pb'[w].st \in {"exit", "dead"}
          /\ pb[w].st = "dead" => pb'[w].st = "dead"]_vars

\* A canceled worker has written its faded chunk and left the loop.
C5_Witness ==
    \E w \in Workers :
        /\ pb[w].st = "exit"
        /\ pb[w].how = "cancel"
        /\ events[pb[w].evt]

\* C6: a playback that has left _stream_tts's with-block, by whatever path,
\* holds no open sink.
C6_SinkReleased ==
    \A w \in Playbacks : pb[w].st \in {"exit", "dead"} => ~pb[w].sink

\* The exit paths side by side: the announcement has returned, one worker left
\* on a synthesis or sink error and another by cancellation or exhaustion.
C6_Witness ==
    /\ pb[0].st = "dead"
    /\ \E v, w \in Workers :
          /\ pb[v].st = "exit" /\ pb[v].how \in {"synth", "sink"}
          /\ pb[w].st = "exit" /\ pb[w].how \in {"cancel", "end"}

\* C7: once the checkpoint is set, processing a sample changes it if and only
\* if |price - checkpoint| >= THRESHOLD_VALUE, and then to that price.  A
\* sample is processed by a wake that returns to the wait (or ends the loop)
\* at once, or by the return of the say() it called.
Crossing(p) ==
    \/ p.kind \in {"inf", "ninf"}
    \/ p.kind = "num" /\ Abs(p.v - Val(checkpoint_price)) >= THRESHOLD_VALUE

C7_CheckpointRule ==
    [][checkpoint_price # None =>
         /\ (pc = "wait" /\ raw'.kind # "bad" /\ Crossing(raw'))
               => pc' = "say"
         /\ (pc \in {"say", "say_start"} /\ pc' = "wait")
               => checkpoint_price' = Some(raw.v)
         /\ checkpoint_price' # checkpoint_price
               => /\ Crossing(raw)
                  /\ checkpoint_price' = Some(raw.v)]_vars

\* C7 for the finite prices and nan: what the loop does when int(round())
\* does not raise.
CheckpointRuleFinite ==
    [][checkpoint_price # None =>
         /\ (pc = "wait" /\ raw'.kind = "num" /\ Crossing(raw'))
               => pc' = "say"
         /\ checkpoint_price' # checkpoint_price
               => /\ pc \in {"say", "say_start"}
                  /\ raw.kind = "num"
                  /\ Crossing(raw)
                  /\ checkpoint_price' = Some(raw.v)]_vars

FirstCheckpointFinite ==
    [][(checkpoint_price = None /\ pc = "wait" /\ raw'.kind = "num")
          => checkpoint_price' = Some(Quantize(raw'.v))]_vars

\* C9: the first announcement is played by the main thread itself: it starts
\* in the step that sets the checkpoint; while it runs no wake is consumed and
\* the coordinator's timestamp and slot, the events and the threads are left
\* alone; its own event is never set and it never fades a chunk.
C9_AnnouncementSynchronous ==
    [][/\ (checkpoint_price = None /\ checkpoint_price' # None)
            => (pc' = "announce" /\ pb'[0].st = "open")
       /\ (pc = "announce" \/ pc' = "announce")
            => UNCHANGED <<engine, events, nThreads>>
       /\ pc = "announce"
            => UNCHANGED <<raw, checkpoint_price>>
       /\ pb[0].st # "new"
            => (~events'[pb[0].evt] /\ pb'[0].st # "fade")]_vars

\* The announcement has played to the end of its synthesis on the main thread.
C9_Witness ==
    /\ pc = "announce"
    /\ pb[0].st = "exit"
    /\ pb[0].how = "end"
    /\ nThreads = 0

\* C10: a step in which a playback leaves on an error changes nothing of the
\* coordinator, of the events or of any other playback; and a say() that has
\* passed the gate goes on to spawn its worker into the slot.
Failed(p) == p.st = "exit" /\ p.how \in {"open", "synth", "sink"}

C10_ErrorIsLocal ==
    [][/\ \A w \in Playbacks :
             (~Failed(pb[w]) /\ Failed(pb'[w]))
                => /\ UNCHANGED <<engine, events, nEvents, nThreads>>
                   /\ \A v \in Playbacks \ {w} : pb'[v] = pb[v]
       /\ pc = "say_lock" => pc' \in {"say_lock", "say_start"}
       /\ (pc = "say_start" /\ pc' # "say_start")
            => /\ nThreads' = nThreads + 1
               /\ pb'[nThreads'].st = "open"
               /\ _current_thread' = Some(nThreads')]_vars

\* The worker of the slot has failed and a later say() has passed the gate.
C10_Witness ==
    /\ pc = "say_lock"
    /\ _current_thread # None
    /\ Failed(pb[Val(_current_thread)])

\* C11: once the loop of main() is entered nothing read from the region and
\* no playback failure ends it: the main thread is never past its loop.
C11_LoopNeverEnds == pc # "crashed"

\* C11 for the payloads float() rejects and for playback failures: neither
\* ends the loop.
LoopSurvivesContained ==
    [][/\ (pc = "wait" /\ raw' # raw /\ raw'.kind = "bad") => pc' = "wait"
       /\ (\E w \in Playbacks : ~Failed(pb[w]) /\ Failed(pb'[w]))
             => pc' = pc]_vars

\* C12: a wake whose payload float() rejects changes nothing but the payload
\* read: the checkpoint, set or unset, the coordinator's timestamp and slot,
\* the events, the threads and the playbacks stay as they were, say() is not
\* entered and the loop is back at pipe.read(1).
C12_UnparseableSkipped ==
    [][(pc = "wait" /\ raw' # raw /\ raw'.kind = "bad")
          => /\ pc' = "wait"
             /\ UNCHANGED <<checkpoint_price, call, engine, events, nEvents,
                            nThreads, pb, history>>]_vars

\* An unparseable payload was the last one read, with the checkpoint set, an
\* alert stamped and its worker still playing.
C12_Witness ==
    /\ pc = "wait"
    /\ raw.kind = "bad"
    /\ checkpoint_price # None
    /\ _last_alert_time > 0
    /\ _current_thread # None
    /\ IsAlive(pb[Val(_current_thread)])

\* An unparseable payload was read before any valid one: the checkpoint is
\* still unset.
UnparseableFirst ==
    /\ pc = "wait"
    /\ raw.kind = "bad"
    /\ checkpoint_price = None

InSay == pc \in {"say", "say_lock", "say_start"}

\* The main thread is scheduled and the statements of say() do not block on
\* anything but the lock; the workers get no fairness: each may stay for ever
\* where it is, inside next(gen) or inside stream.write().
SayFair ==
    /\ WF_vars(SayGate)
    /\ WF_vars(SayCancel)
    /\ WF_vars(SayStart)

\* The run in which every phrase of the cache was synthesized whole.
InitCached ==
    /\ Init
    /\ \A i \in 1..Len(Phrases) : _prefix_cache[i] = "clip"

SpecSayFair == InitCached /\ [][Next]_vars /\ SayFair

\* The lock is held by the main thread only, and only between the is_alive()
\* test and the start of the new thread; say() is never disabled.
LockDiscipline ==
    /\ _lock \in {None, Some(0)}
    /\ _lock # None <=> pc = "say_start"
    /\ InSay => ENABLED (SayGate \/ SayCancel \/ SayStart)

\* C13: a say() that was entered returns, whatever the workers do or fail to
\* do; the lock is held by the main thread only, and only between the
\* is_alive() test and the start of the new thread, so never while the
\* caller is outside say() and never by a thread that plays.
C13_SayReturns ==
    /\ []LockDiscipline
    /\ InSay ~> (pc = "wait")

\* say() has returned with its new worker not yet run, while the worker it
\* replaced is still inside next(gen) or stream.write().
C13_Witness ==
    /\ pc = "wait"
    /\ nThreads = MaxWorkers
    /\ pb[nThreads].st = "open"
    /\ \E w \in Workers : w < nThreads /\ pb[w].st \in {"pull", "write"}

\* What the followed worker writes when nothing cancels it and nothing fails:
\* the lead-in if there is a non-empty one, then the non-empty chunks in the
\* order the synthesis yields them.
Audible(block) == Len(block) > 0
Uncanceled ==
    (IF Audible(ClipOf(_prefix_cache[UpKey]))
     THEN <<ClipOf(_prefix_cache[UpKey])>> ELSE <<>>)
    \o SelectSeq(pipeline, Audible)

\* C14: the blocks written are, one for one and in order, the lead-in and the
\* non-empty chunks, each with its samples as synthesized; only the block
\* written last may differ, and only once the event is set and if it is not
\* the lead-in.  A worker never canceled that reaches the end of the synthesis
\* has written them all.  The cached array is as the cache build left it.
C14_UnmodifiedInOrder ==
    /\ clip = ClipOf(_prefix_cache[UpKey])
    /\ Len(stream) <= Len(Uncanceled)
    /\ \A i \in 1..Len(stream) :
          \/ stream[i] = Uncanceled[i]
          \/ /\ i = Len(stream)
             /\ sinceSet # None
             /\ ~(i = 1 /\ Audible(clip))
    /\ (/\ pb[TheWorker].st = "exit"
        /\ pb[TheWorker].how = "end"
        /\ sinceSet = None) => stream = Uncanceled

\* A worker never canceled has played a lead-in and a synthesis of two
\* non-empty chunks and an empty one to the end.
C14_Witness ==
    /\ pb[TheWorker].st = "exit"
    /\ pb[TheWorker].how = "end"
    /\ sinceSet = None
    /\ Len(stream) = 3
    /\ stream[1] = clip
    /\ \E j \in 1..Len(pipeline) : ~Audible(pipeline[j])

\* The lead-in was written, as cached, after the event was set.
LeadinAfterSet ==
    /\ sinceSet # None
    /\ Val(sinceSet) = 1
    /\ Len(stream) = 1
    /\ Audible(clip)
    /\ stream[1] = clip

\* The canceled chunk as synthesized and as written: the worker left its loop
\* by the break of line 81.
Canceled == pb[TheWorker].st = "exit" /\ pb[TheWorker].how = "cancel"
Synthesized == pipeline[yielded]
Written == stream[Len(stream)]
Scaled(x, m) == Times(x, Sample(m))

\* C15: of a canceled chunk of L >= 1 samples the first fadeSamples =
\* min(L, SAMPLE_RATE * FADE_OUT_MS / 1000) are multiplied by fadeSamples
\* evenly spaced multipliers, 1.0 on the first sample and 0.0 on sample
\* fadeSamples, and the samples beyond are written as synthesized.
C15_FadeRamp ==
    Canceled =>
        LET L == Len(Synthesized)
            fadeSamples == Min(L, (SAMPLE_RATE * FADE_OUT_MS) \div 1000)
        IN  /\ L >= 1
            /\ Len(Written) = L
            /\ SameValue(Written[1], Synthesized[1])
            /\ SameValue(Written[fadeSamples], Sample(0))
            /\ \A k \in 1..fadeSamples :
                  SameValue(Scaled(Written[k], fadeSamples - 1),
                            Scaled(Synthesized[k], fadeSamples - k))
            /\ \A k \in (fadeSamples + 1)..L : Written[k] = Synthesized[k]

\* C15 as the code has it: the ramp runs from 1.0 to 0.0 when fadeSamples is
\* 2 or more; a chunk of one sample is multiplied by 1.0 and written as
\* synthesized.
C15_FadeRampFromTwo ==
    Canceled =>
        LET L == Len(Synthesized)
            fadeSamples == Min(L, (SAMPLE_RATE * FADE_OUT_MS) \div 1000)
        IN  /\ L >= 1
            /\ Len(Written) = L
            /\ SameValue(Written[1], Synthesized[1])
            /\ fadeSamples >= 2 => SameValue(Written[fadeSamples], Sample(0))
            /\ \A k \in 1..fadeSamples :
                  SameValue(Scaled(Written[k], fadeSamples - 1),
                            Scaled(Synthesized[k], fadeSamples - k))
            /\ \A k \in (fadeSamples + 1)..L : Written[k] = Synthesized[k]

\* A canceled chunk longer than the fade was written: its head faded to
\* silence, its tail at full scale.
C15_Witness ==
    /\ Canceled
    /\ Len(Synthesized) > FadeLength
    /\ SameValue(Written[FadeLength], Sample(0))
    /\ Written[Len(Written)] = Synthesized[Len(Synthesized)]
    /\ Written[Len(Written)].n # 0

\* Two characters that are the same letter, whatever their case.
SameLetter(a, b) ==
    \/ a = b
    \/ \E i \in 1..Len(LowerCase) : {a, b} = {LowerCase[i], UpperCase[i]}

\* key is a prefix of text, case aside.
PrefixAnyCase(key, text) ==
    /\ Len(key) <= Len(text)
    /\ \A k \in 1..Len(key) : SameLetter(key[k], text[k])

\* The places of the cached phrases that are a prefix of the text.
Matching(text) ==
    {i \in 1..Len(Phrases) :
        _prefix_cache[i] # "absent" /\ PrefixAnyCase(Phrases[i], text)}

\* C16: the lead-in looked up for a text is the chunk cached for the first
\* phrase in cache order that is cached and is a prefix of the text, case
\* aside, and is None when there is no such phrase; a phrase whose synthesis
\* failed is not cached and gives no lead-in.
C16_LeadinLookup ==
    pc = "say_lock" =>
        IF Matching(call.text) = {} THEN call.leadin = "none"
        ELSE \E i \in Matching(call.text) :
                /\ \A j \in Matching(call.text) : i <= j
                /\ call.leadin = _prefix_cache[i]

\* A text in capitals got the clip cached for its phrase while another
\* phrase is missing from the cache.
C16_Witness ==
    /\ pc = "say_lock"
    /\ call.text = Upper(UpText(PriceStep))
    /\ call.leadin = "clip"
    /\ \E i \in 1..Len(Phrases) : _prefix_cache[i] = "absent"

\* A text of the phrase that failed to synthesize gets no lead-in while the
\* other phrases are cached.
AbsentPhraseNoLeadin ==
    /\ pc = "say_lock"
    /\ call.text = DownText(PriceStep)
    /\ call.leadin = "none"
    /\ \A i \in 1..Len(Phrases) :
          _prefix_cache[i] = IF Phrases[i] = PhraseDown THEN "absent" ELSE "clip"

Started == {w \in Playbacks : pb[w].st # "new"}

\* The slot holds the newest worker and its event; None and the Event of
\* __init__ before any worker.
SlotIsNewest ==
    /\ nThreads = 0 => (_current_thread = None /\ _cancel_event = 0)
    /\ nThreads > 0 => /\ _current_thread = Some(nThreads)
                       /\ _cancel_event = pb[nThreads].evt
    /\ pc \notin {"say_lock", "say_start"} => nThreads = Len(accepted)
    /\ \A v, w \in Started : v # w => pb[v].evt # pb[w].evt
    /\ \A w \in Started : pb[w].evt # 0

\* C17: outside the locked part of say() the slot holds the worker and the
\* Event made by the accepted call that came last; no two playbacks were
\* given the same Event; and a step that sets an Event sets the one the slot
\* holds.
C17_SlotTracksLastCall ==
    /\ []SlotIsNewest
    /\ [][\A e \in EventIds :
             (~events[e] /\ events'[e]) => e = _cancel_event]_vars

\* The second accepted call has returned: the slot holds its worker, and the
\* event of the first worker, which has ended since, is the one that call set.
C17_Witness ==
    /\ pc = "wait"
    /\ nThreads = 2
    /\ _current_thread = Some(2)
    /\ _cancel_event = pb[2].evt
    /\ pb[1].st = "dead"
    /\ events[pb[1].evt]
    /\ ~events[_cancel_event]

\* C18: an alive worker whose event is unset is the worker in the slot, so
\* there is at most one; a set event stays set; and a worker starts with its
\* event unset.
C18_OneUncanceledWorker ==
    /\ [](\A w \in Workers :
             (IsAlive(pb[w]) /\ ~events[pb[w].evt])
                => _current_thread = Some(w))
    /\ [][/\ \A e \in EventIds : events[e] => events'[e]
          /\ \A w \in Workers :
                (pb[w].st = "new" /\ pb'[w].st # "new")
                   => ~events'[pb'[w].evt]]_vars

\* Two workers are alive at once: the replaced one, canceled and about to
\* fade, and the one in the slot, not canceled.
C18_Witness ==
    /\ nThreads = 2
    /\ pb[1].st = "fade"
    /\ events[pb[1].evt]
    /\ IsAlive(pb[2])
    /\ ~events[pb[2].evt]
    /\ _current_thread = Some(2)

\* C19: once the worker's event is set it begins at most two more sink
\* writes; and, its synthesis being finite and every next(gen) and
\* stream.write() returning or raising, it then ends with its sink closed.
C19_BoundedResponse ==
    /\ [](sinceSet # None => Val(sinceSet) <= 2)
    /\ (sinceSet # None) ~> (pb[TheWorker].st = "dead" /\ ~pb[TheWorker].sink)

\* The event was set before the lead-in write: the lead-in and one faded
\* chunk were written, and the worker has ended.
C19_Witness ==
    /\ sinceSet = Some(2)
    /\ pb[TheWorker].st = "dead"
    /\ ~pb[TheWorker].sink
    /\ Len(stream) = 2
    /\ stream[1] = clip
    /\ stream[2] # pipeline[yielded]

\* The event was set between the check of line 79 and the write of line 82:
\* that chunk was written unfaded, the next one faded.
SetAfterCheck ==
    /\ sinceSet = Some(2)
    /\ pb[TheWorker].st = "exit"
    /\ pb[TheWorker].how = "cancel"
    /\ yielded >= 2
    /\ Len(stream) >= 2
    /\ stream[Len(stream) - 1] = pipeline[yielded - 1]
    /\ stream[Len(stream)] # pipeline[yielded]

\* The text of the alert for a finite price that crossed the threshold.
AlertText(price) ==
    IF price - Val(checkpoint_price) >= THRESHOLD_VALUE THEN UpText(price)
    ELSE DownText(price)

\* C20: with the checkpoint set, a wake that reads a sample at least
\* THRESHOLD_VALUE away from it enters say() with the text of its direction,
\* say() is entered in no other way, and when say() returns the checkpoint
\* is the price: a dropped call returns with no thread made and no playback
\* touched, an accepted one with one more thread.
C20_SayPerCrossing ==
    [][checkpoint_price # None =>
         /\ (pc = "wait" /\ raw'.kind # "bad" /\ Crossing(raw'))
               => /\ pc' = "say"
                  /\ raw'.kind = "num"
                        => call' = [NoCall EXCEPT !.text = AlertText(raw'.v)]
         /\ (pc # "say" /\ pc' = "say")
               => (pc = "wait" /\ Crossing(raw'))
         /\ (pc = "say" /\ pc' = "wait")
               => /\ checkpoint_price' = Some(raw.v)
                  /\ UNCHANGED <<engine, events, nEvents, nThreads, pb>>
         /\ (pc = "say_start" /\ pc' = "wait")
               => /\ checkpoint_price' = Some(raw.v)
                  /\ nThreads' = nThreads + 1]_vars

\* C20 for the finite prices.
SayPerCrossingFinite ==
    [][checkpoint_price # None =>
         /\ (pc = "wait" /\ raw'.kind = "num" /\ Crossing(raw'))
               => /\ pc' = "say"
                  /\ call' = [NoCall EXCEPT !.text = AlertText(raw'.v)]
         /\ (pc # "say" /\ pc' = "say")
               => (pc = "wait" /\ raw'.kind = "num" /\ Crossing(raw'))
         /\ (pc = "say" /\ pc' = "wait")
               => /\ checkpoint_price' = Some(raw.v)
                  /\ UNCHANGED <<engine, events, nEvents, nThreads, pb>>
         /\ (pc = "say_start" /\ pc' = "wait")
               => /\ checkpoint_price' = Some(raw.v)
                  /\ nThreads' = nThreads + 1]_vars

\* A crossing whose call was dropped has moved the checkpoint: the price is
\* the checkpoint and no worker was made for it.
DroppedCrossingMoves ==
    /\ pc = "wait"
    /\ dropped
    /\ checkpoint_price = Some(raw.v)
    /\ nThreads = Len(accepted)
    /\ nThreads = 1

====
